---- MODULE Spec2Model ----
(***************************************************************************)
(* Gemini function-calling demo: the executor of functions.py, the         *)
(* conversation loop of gemini_client.py and the HTTP facade of app.py.    *)
(*                                                                         *)
(* Python strings that the code inspects (place names) are sequences of    *)
(* one-character strings; coordinates are integers scaled by 10^4.         *)
(* None is the record None; every 'data' and 'error' value is a record.    *)
(***************************************************************************)
EXTENDS Integers, Sequences, FiniteSets, TLC

\* ------------------------------------------------------------------ bounds
\* chat requests the facade accepts over a run
MaxTurns == 2
\* function-call responses the hosted model gives over a run of the facade
MaxCalls == 1
\* user turns of the command line client over a run
CliTurns == 1
\* function-call responses the hosted model gives over a run of that client
CliCalls == 2
\* start-new-session requests over a run
MaxNewChats == 1
\* direct calls of the executor in the executor harness
MaxExec == 2

\* ------------------------------------------------------- Python primitives
None == [none |-> TRUE]

UpperCase == <<"A","B","C","D","E","F","G","H","I","J","K","L","M",
               "N","O","P","Q","R","S","T","U","V","W","X","Y","Z">>
LowerCase == <<"a","b","c","d","e","f","g","h","i","j","k","l","m",
               "n","o","p","q","r","s","t","u","v","w","x","y","z">>

\* str.lower() on one character
LowerChar(c) ==
    IF \E i \in 1..26 : UpperCase[i] = c
    THEN LowerCase[CHOOSE i \in 1..26 : UpperCase[i] = c]
    ELSE c

\* str.lower()
Lower(s) == [i \in 1..Len(s) |-> LowerChar(s[i])]

IsSpace(c) == c \in {" ", "\t", "\n"}

RECURSIVE LStrip(_)
LStrip(s) == IF s # <<>> /\ IsSpace(Head(s)) THEN LStrip(Tail(s)) ELSE s

RECURSIVE RStrip(_)
RStrip(s) ==
    IF s # <<>> /\ IsSpace(s[Len(s)]) THEN RStrip(SubSeq(s, 1, Len(s) - 1)) ELSE s

\* str.strip()
Strip(s) == RStrip(LStrip(s))

\* a in b, for strings
Contains(b, a) ==
    \E i \in 0..(Len(b) - Len(a)) : SubSeq(b, i + 1, i + Len(a)) = a

\* s.split(',')[0]
BeforeComma(s) ==
    IF \E i \in 1..Len(s) : s[i] = ","
    THEN SubSeq(s, 1, (CHOOSE i \in 1..Len(s) :
                          s[i] = "," /\ \A j \in 1..(i - 1) : s[j] # ",") - 1)
    ELSE s

\* ------------------------------------------------- the static place table
\* An excerpt of CITY_COORDINATES in its insertion order (the order the
\* loops of handle_geocode_location iterate in).
CITY_COORDINATES == <<
    [city |-> <<"N","e","w"," ","Y","o","r","k",","," ","N","Y">>,
     lat |-> 407128, lon |-> -740060],
    [city |-> <<"B","o","s","t","o","n",","," ","M","A">>,
     lat |-> 423601, lon |-> -710589],
    [city |-> <<"R","o","m","e",","," ","N","Y">>,
     lat |-> 432128, lon |-> -754557] >>

CityKeys == {CITY_COORDINATES[i].city : i \in 1..Len(CITY_COORDINATES)}

\* CITY_COORDINATES[key], for a key of the table
CityEntry(key) ==
    CITY_COORDINATES[CHOOSE i \in 1..Len(CITY_COORDINATES) :
                        CITY_COORDINATES[i].city = key]

\* ------------------------------------------------ dictionaries and floats
\* d.get(k): a dictionary is a record holding exactly its present keys
Get(d, k) == IF k \in DOMAIN d THEN d[k] ELSE None

\* d.get(k, default)
GetOr(d, k, default) == IF k \in DOMAIN d THEN d[k] ELSE default

Digits == <<"0","1","2","3","4","5","6","7","8","9">>
IsDigit(c) == \E i \in 1..10 : Digits[i] = c
DigitVal(c) == (CHOOSE i \in 1..10 : Digits[i] = c) - 1

RECURSIVE DigitsVal(_)
DigitsVal(s) ==
    IF s = <<>> THEN 0 ELSE 10 * DigitsVal(SubSeq(s, 1, Len(s) - 1)) + DigitVal(s[Len(s)])

AllDigits(s) == s # <<>> /\ \A i \in 1..Len(s) : IsDigit(s[i])

\* the decimal literals float() is given here: [-]digits[.digits], at most
\* four decimals; anything else is a ValueError
Unsigned(s) == IF s # <<>> /\ Head(s) = "-" THEN Tail(s) ELSE s
IntPart(s) ==
    IF \E i \in 1..Len(s) : s[i] = "."
    THEN SubSeq(s, 1, (CHOOSE i \in 1..Len(s) : s[i] = ".") - 1)
    ELSE s
FracPart(s) ==
    IF \E i \in 1..Len(s) : s[i] = "."
    THEN SubSeq(s, (CHOOSE i \in 1..Len(s) : s[i] = ".") + 1, Len(s))
    ELSE <<>>
IsFloatLiteral(s) ==
    /\ AllDigits(IntPart(Unsigned(s)))
    /\ \A i \in 1..Len(FracPart(Unsigned(s))) : IsDigit(FracPart(Unsigned(s))[i])
    /\ Len(FracPart(Unsigned(s))) <= 4
Pow10(n) == CASE n = 0 -> 1 [] n = 1 -> 10 [] n = 2 -> 100 [] n = 3 -> 1000 [] OTHER -> 10000

\* float(s) for a literal, scaled by 10^4
FloatOf(s) ==
    LET u == Unsigned(s)
        v == DigitsVal(IntPart(u)) * 10000
             + DigitsVal(FracPart(u)) * Pow10(4 - Len(FracPart(u)))
    IN  IF u # s THEN 0 - v ELSE v

\* ---------------------------------------------------- outbound HTTP replies
\* What one requests.get / requests.post call meets: a reply with a JSON body,
\* or one of the failures that requests raises as a RequestException
\* (raise_for_status raises HTTPError for 4xx and 5xx).
FailureKinds == {"conn_error", "timeout", "http_4xx", "http_5xx"}

\* str(e) of the RequestException
ExceptionText(kind) ==
    CASE kind = "conn_error" -> "ConnectionError"
      [] kind = "timeout"    -> "ReadTimeout"
      [] kind = "http_4xx"   -> "404 Client Error"
      [] OTHER               -> "500 Server Error"

\* getattr(e.response, 'status_code', None): only an HTTPError carries a response
StatusCodeOf(kind) ==
    CASE kind = "http_4xx" -> [code |-> 404]
      [] kind = "http_5xx" -> [code |-> 500]
      [] OTHER             -> None

\* getattr(e.response, 'text', None)
ResponseTextOf(kind) ==
    IF kind \in {"http_4xx", "http_5xx"} THEN [text |-> ExceptionText(kind)] ELSE None

Failed(kind, nobody) == [status |-> kind, body |-> nobody]
Ok(body) == [status |-> "ok", body |-> body]

\* JSON values of a geocoding result
JStr(s) == [str |-> s]
JNull == None

Paris == <<"P","a","r","i","s">>
NominatimBodies == {
    <<>>,
    << [lat |-> JStr(<<"4","8",".","8","5","6","6">>),
        lon |-> JStr(<<"2",".","3","5","2","2">>),
        display_name |-> JStr(Paris)] >>,
    << [lat |-> JStr(<<"-","3","3",".","8","6">>),
        lon |-> JStr(<<"1","5","1",".","2">>)],
       [lat |-> JStr(<<"1">>), lon |-> JStr(<<"1">>)] >>,
    << [lon |-> JStr(<<"2",".","3","5","2","2">>)] >>,
    << [lat |-> JStr(<<"n","o","r","t","h">>), lon |-> JStr(<<"2">>)] >>,
    << [lat |-> JNull, lon |-> JStr(<<"2">>)] >> }

NominatimReplies == {Failed(k, <<>>) : k \in FailureKinds} \cup {Ok(b) : b \in NominatimBodies}

MinyanBodies == {[json |-> "broadcast"], [json |-> "broadcasts"]}
MinyanReplies == {Failed(k, None) : k \in FailureKinds} \cup {Ok(b) : b \in MinyanBodies}

\* A handler's outcome: the dictionary it returns (None when it raises), the
\* exception that escapes it ("" when none) and the outbound requests it made.
Returned(dict, http) == [result |-> dict, raised |-> "", http |-> http]
Raised(exc, http) == [result |-> None, raised |-> exc, http |-> http]

\* ------------------------------------------------------------ functions.py
RequestFailure(kind) ==
    [success |-> FALSE,
     error |-> [text |-> ExceptionText(kind)],
     status_code |-> StatusCodeOf(kind),
     response_text |-> ResponseTextOf(kind)]

\* mutant: the failure of the POST is not caught
handle_create_broadcast_uncaught(args, reply) ==
    IF reply.status = "ok"
    THEN Returned([success |-> TRUE, data |-> reply.body], 1)
    ELSE Raised("RequestException", 1)

\* handle_create_broadcast: one POST /broadcasts, no retry
handle_create_broadcast(args, reply) ==
    IF reply.status = "ok"
    THEN Returned([success |-> TRUE, data |-> reply.body], 1)
    ELSE Returned(RequestFailure(reply.status), 1)

\* mutant: a failed GET is tried once more
handle_find_nearby_broadcasts_retry(args, reply) ==
    IF reply.status = "ok"
    THEN Returned([success |-> TRUE, data |-> reply.body], 1)
    ELSE Returned(RequestFailure(reply.status), 2)

\* handle_find_nearby_broadcasts: one GET /broadcasts/nearby, no retry
handle_find_nearby_broadcasts(args, reply) ==
    IF reply.status = "ok"
    THEN Returned([success |-> TRUE, data |-> reply.body], 1)
    ELSE Returned(RequestFailure(reply.status), 1)

\* mutant: latitude and longitude change places
LocalHitSwapped(location, entry, display) ==
    [success |-> TRUE,
     data |-> [location |-> location, latitude |-> entry.lon,
               longitude |-> entry.lat, display_name |-> display,
               source |-> "local_map"]]

\* functions.py 360-369: the answer from the table
LocalHit(location, entry, display) ==
    [success |-> TRUE,
     data |-> [location |-> location, latitude |-> entry.lat,
               longitude |-> entry.lon, display_name |-> display,
               source |-> "local_map"]]

\* functions.py 374: city.lower() == location_lower
SameFolded(location_lower, city) == Lower(city) = location_lower

\* functions.py 389-390: the partial match of a key
Partial(location_lower, city) ==
    LET city_name == Lower(Strip(BeforeComma(city)))
    IN  \/ location_lower = city_name
        \/ Contains(Lower(city), location_lower)
        \/ Contains(location_lower, Lower(city))

CityMatches(pass, location_lower, city) ==
    IF pass = "folded" THEN SameFolded(location_lower, city)
    ELSE Partial(location_lower, city)

\* the first table entry, in table order, that a pass over the table matches
FirstCity(pass, location_lower) ==
    CITY_COORDINATES[CHOOSE i \in 1..Len(CITY_COORDINATES) :
        /\ CityMatches(pass, location_lower, CITY_COORDINATES[i].city)
        /\ \A j \in 1..(i - 1) :
               ~CityMatches(pass, location_lower, CITY_COORDINATES[j].city)]

AnyCity(pass, location_lower) ==
    \E i \in 1..Len(CITY_COORDINATES) :
        CityMatches(pass, location_lower, CITY_COORDINATES[i].city)

\* mutant: the last result is taken
LastResult(results) == results[Len(results)]

\* functions.py 425: result = results[0]
FirstResult(results) == results[1]

\* float(result[key]): the exception it raises, "" when it yields a number
FloatError(result, key) ==
    IF key \notin DOMAIN result THEN "KeyError"
    ELSE IF "str" \notin DOMAIN result[key] THEN "TypeError"
    ELSE IF ~IsFloatLiteral(result[key].str) THEN "ValueError"
    ELSE ""

InvalidGeocoding(exc) ==
    [success |-> FALSE,
     error |-> [text |-> "Invalid geocoding response", detail |-> exc]]

\* the Nominatim fallback of handle_geocode_location: one GET, no retry
NominatimLookup(location, reply) ==
    IF reply.status # "ok"
    THEN Returned([success |-> FALSE,
                   error |-> [text |-> "Geocoding failed",
                              detail |-> ExceptionText(reply.status)]], 1)
    ELSE IF reply.body = <<>>
    THEN Returned([success |-> FALSE,
                   error |-> [text |-> "Location not found",
                              location |-> location]], 1)
    ELSE LET result == FirstResult(reply.body)
             exc == IF FloatError(result, "lat") # ""
                    THEN FloatError(result, "lat")
                    ELSE FloatError(result, "lon")
         IN  IF exc = "TypeError" THEN Raised("TypeError", 1)
             ELSE IF exc # "" THEN Returned(InvalidGeocoding(exc), 1)
             ELSE Returned(
                    [success |-> TRUE,
                     data |-> [location |-> location,
                               latitude |-> FloatOf(result.lat.str),
                               longitude |-> FloatOf(result.lon.str),
                               display_name |->
                                   GetOr(result, "display_name", JStr(location)).str,
                               source |-> "nominatim_api"]], 1)

\* handle_geocode_location
handle_geocode_location(args, reply) ==
    LET location == Strip(GetOr(args, "location", <<>>))
        location_lower == Lower(location)
    IN  IF location = <<>>
        THEN Returned([success |-> FALSE,
                       error |-> [text |-> "Location parameter is required"]], 0)
        ELSE IF location \in CityKeys
        THEN Returned(LocalHit(location, CityEntry(location), location), 0)
        ELSE IF AnyCity("folded", location_lower)
        THEN Returned(LocalHit(location, FirstCity("folded", location_lower),
                               FirstCity("folded", location_lower).city), 0)
        ELSE IF AnyCity("partial", location_lower)
        THEN Returned(LocalHit(location, FirstCity("partial", location_lower),
                               FirstCity("partial", location_lower).city), 0)
        ELSE NominatimLookup(location, reply)

Handlers == {"createBroadcast", "findNearbyBroadcasts", "geocodeLocation"}

\* mutant: the handler is looked up with handlers[function_name]
execute_function_keyerror(function_name, args, reply) ==
    IF function_name \notin Handlers
    THEN Raised("KeyError", 0)
    ELSE CASE function_name = "createBroadcast" -> handle_create_broadcast(args, reply)
           [] function_name = "findNearbyBroadcasts" ->
                  handle_find_nearby_broadcasts(args, reply)
           [] OTHER -> handle_geocode_location(args, reply)

\* execute_function: route by name; an unknown name is an error dictionary
execute_function(function_name, args, reply) ==
    IF function_name \notin Handlers
    THEN Returned([success |-> FALSE,
                   error |-> [text |-> "Unknown function", name |-> function_name]], 0)
    ELSE CASE function_name = "createBroadcast" -> handle_create_broadcast(args, reply)
           [] function_name = "findNearbyBroadcasts" ->
                  handle_find_nearby_broadcasts(args, reply)
           [] OTHER -> handle_geocode_location(args, reply)

\* the replies the service behind a function can give
RepliesFor(function_name) ==
    IF function_name = "geocodeLocation" THEN NominatimReplies ELSE MinyanReplies

\* ------------------------------------------------------- the hosted model
EmptyDict == [k \in {} |-> None]

\* function_call.args as the SDK hands it over: a dict, an object with
\* attributes, a protobuf message, or another mapping
ArgsObject(kind, items, public) == [kind |-> kind, items |-> items, public |-> public]
DictArgs(d) == ArgsObject("dict", d, EmptyDict)

\* gemini_client.py 72-92: function_call.args as a dictionary
ArgsToDict(args_obj) ==
    IF args_obj.kind \in {"dict", "mapping"} /\ DOMAIN args_obj.items = {}
    THEN EmptyDict
    ELSE CASE args_obj.kind = "dict"    -> args_obj.items
           [] args_obj.kind = "object"  -> args_obj.public
           [] args_obj.kind = "message" -> args_obj.items
           [] OTHER                     -> EmptyDict

TextPart(t) == [function_call |-> None, text |-> t]
CallPart(fc) == [function_call |-> fc, text |-> ""]
Response(parts) == [candidates |-> << [content |-> [parts |-> parts]] >>]
NoCandidates == [candidates |-> <<>>]

\* the condition of the while loop of send_message
IsFunctionCall(resp) ==
    /\ Len(resp.candidates) > 0
    /\ Len(resp.candidates[1].content.parts) > 0
    /\ resp.candidates[1].content.parts[1].function_call # None

PartsOf(resp) == IF Len(resp.candidates) > 0 THEN resp.candidates[1].content.parts ELSE <<>>

RECURSIVE JoinTexts(_)
JoinTexts(parts) ==
    IF parts = <<>> THEN <<>> ELSE <<Head(parts).text>> \o JoinTexts(Tail(parts))

\* response.text: the texts of the parts; the SDK raises ValueError when there
\* is no part, and for a part that is not text it raises or skips the part
\* depending on its version
ResponseTexts(resp) ==
    LET parts == PartsOf(resp)
        texts == [text |-> JoinTexts(SelectSeq(parts, LAMBDA p : p.function_call = None))]
    IN  IF parts = <<>> THEN {Raised("ValueError", 0)}
        ELSE IF \A i \in 1..Len(parts) : parts[i].function_call = None
        THEN {Returned(texts, 0)}
        ELSE {Returned(texts, 0), Raised("ValueError", 0)}

RomeNY == <<"R","o","m","e",","," ","N","Y">>
CreateArgs == [latitude |-> 407128, longitude |-> -740060, minyanType |-> "mincha"]
NearbyArgs == [latitude |-> 407130, longitude |-> -740059, radius |-> 2]

CreateCall == [name |-> "createBroadcast", args |-> DictArgs(CreateArgs)]
FindCall == [name |-> "findNearbyBroadcasts",
             args |-> ArgsObject("message", NearbyArgs, EmptyDict)]
GeocodeCall(place) == [name |-> "geocodeLocation", args |-> DictArgs([location |-> place])]
UnknownCall == [name |-> "deleteBroadcast",
                args |-> ArgsObject("object", CreateArgs, EmptyDict)]

\* The function calls the model asks for: every one under the command line
\* client; behind the facade a create call and a geocoding call.
ModelCalls(m) ==
    IF m = "cli"
    THEN {CreateCall, FindCall, GeocodeCall(RomeNY), GeocodeCall(Paris), UnknownCall}
    ELSE {CreateCall, GeocodeCall(Paris)}

CallResponses(m) ==
    {Response(<<CallPart(fc)>>) : fc \in ModelCalls(m)}
    \cup (IF m = "cli" THEN {Response(<<CallPart(CreateCall), CallPart(FindCall)>>)} ELSE {})

TextResponses(m) ==
    {Response(<<TextPart("answer")>>)}
    \cup (IF m = "cli"
          THEN {Response(<<TextPart("note"), CallPart(CreateCall)>>), NoCandidates}
          ELSE {})

GoodPlace == << [lat |-> JStr(<<"4","8",".","8","5","6","6">>),
                 lon |-> JStr(<<"2",".","3","5","2","2">>),
                 display_name |-> JStr(Paris)] >>
NullPlace == << [lat |-> JNull, lon |-> JStr(<<"2">>)] >>

\* the replies the services give within the conversation loop; behind the
\* facade the geocoding service gives the reply that makes the handler raise
LoopReplies(m, function_name) ==
    IF function_name = "geocodeLocation"
    THEN IF m = "cli"
         THEN {Ok(GoodPlace), Ok(<<>>), Ok(NullPlace), Failed("timeout", <<>>)}
         ELSE {Ok(NullPlace)}
    ELSE IF m = "cli"
         THEN {Ok([json |-> "broadcast"]), Failed("timeout", None), Failed("http_4xx", None)}
         ELSE {Ok([json |-> "broadcast"]), Failed("timeout", None)}

\* ------------------------------------------------------------------- state
Requests == {1, 2}

VARIABLES
    mode,                  \* "facade" (app.py), "cli" (main.py), "exec" or "conv"
    client_ok,             \* app.py: client is not None
    chat,                  \* client.chat: the session's number, 0 for None
    sessions,              \* sessions created so far
    chat_log,              \* what the session client.chat has been sent
    conversation_history,  \* client.conversation_history
    pc,                    \* where each request stands
    user_message,          \* send_message: user_message (the k-th turn's text is k)
    response,              \* send_message: response
    flow_info,             \* send_message: flow_info
    function_result,       \* send_message: function_result
    status,                \* the HTTP status the facade answers with
    body,                  \* the JSON the facade answers with
    sent,                  \* per call: the messages it sent to the model
    received,              \* per call: the responses it received
    executed,              \* per call: the functions it executed
    turns,                 \* user turns begun
    calls,                 \* function-call responses the model has given
    new_chats,             \* start-new-session requests handled
    completed,             \* calls of send_message that have returned
    x_call,                \* harness of the pure functions: the last call made
    x_out,                 \* harness: its outcome
    x_count                \* harness: calls made

shared == <<client_ok, chat, sessions, chat_log, conversation_history>>
locals == <<user_message, response, flow_info, function_result>>
answer == <<status, body>>
ghosts == <<sent, received, executed>>
budget == <<turns, calls, new_chats, completed>>
harness == <<x_call, x_out, x_count>>
vars == <<mode, shared, pc, locals, answer, ghosts, budget, harness>>

NoCall == [name |-> "", args |-> EmptyDict, reply |-> Failed("", None)]

InitShared ==
    /\ sessions = (IF client_ok THEN 1 ELSE 0)
    /\ chat = sessions
    /\ chat_log = <<>>
    /\ conversation_history = <<>>

InitFrames ==
    /\ pc = [r \in Requests |-> "idle"]
    /\ user_message = [r \in Requests |-> 0]
    /\ response = [r \in Requests |-> NoCandidates]
    /\ flow_info = [r \in Requests |-> None]
    /\ function_result = [r \in Requests |-> None]
    /\ status = [r \in Requests |-> 0]
    /\ body = [r \in Requests |-> None]
    /\ sent = [r \in Requests |-> <<>>]
    /\ received = [r \in Requests |-> <<>>]
    /\ executed = [r \in Requests |-> <<>>]
    /\ turns = 0 /\ calls = 0 /\ new_chats = 0 /\ completed = 0

InitRequests ==
    /\ InitFrames
    /\ x_call = NoCall /\ x_out = Returned(None, 0) /\ x_count = 0

\* app.py 12-18: the client and its first session, or None
Init ==
    /\ mode = "facade"
    /\ client_ok \in BOOLEAN
    /\ InitShared /\ InitRequests

\* main.py 46-48: the client and its first session (a failure exits)
InitCli ==
    /\ mode = "cli"
    /\ client_ok = TRUE
    /\ InitShared /\ InitRequests

InitExec ==
    /\ mode = "exec"
    /\ client_ok = TRUE
    /\ InitShared /\ InitRequests

\* the bounds of the mode
TurnLimit == IF mode = "cli" THEN CliTurns ELSE MaxTurns
CallLimit == IF mode = "cli" THEN CliCalls ELSE MaxCalls

\* ------------------------------------------------------------ the callers
\* the request is answered: its frame is gone, its answer is on the wire
Answer(r, code, json) ==
    /\ pc' = [pc EXCEPT ![r] = "replied"]
    /\ status' = [status EXCEPT ![r] = code]
    /\ body' = [body EXCEPT ![r] = json]
    /\ user_message' = [user_message EXCEPT ![r] = 0]
    /\ response' = [response EXCEPT ![r] = NoCandidates]
    /\ flow_info' = [flow_info EXCEPT ![r] = None]
    /\ function_result' = [function_result EXCEPT ![r] = None]

NotInitialized == [error |-> [text |-> "Gemini client not initialized"]]

\* app.py 68-69 (HTTP 500 with str(e)) and main.py 76-78 (print, prompt again)
Fail(r, exc) == Answer(r, IF mode = "facade" THEN 500 ELSE 0, [error |-> [text |-> exc]])

\* An answer is delivered before any request takes its next step: delivery
\* touches nothing but the answered request's own state.
Delivered == \A q \in Requests : pc[q] # "replied"

\* app.py 21-39
Health(r) ==
    /\ Delivered
    /\ mode = "facade" /\ pc[r] = "idle"
    /\ IF client_ok
       THEN Answer(r, 200, [status |-> "ok"])
       ELSE Answer(r, 500, [status |-> "error"])
    /\ UNCHANGED <<mode, shared, ghosts, budget, harness>>

\* request.get_json(): what the body of a /chat request parses to
RequestBodies ==
    {"invalid_json", "null", "empty_object", "no_message", "list_with_message",
     "with_message"}
Truthy(data) == data \notin {"null", "empty_object"}
HasMessage(data) == data \in {"list_with_message", "with_message"}
IsObject(data) == data \in {"empty_object", "no_message", "with_message"}

\* app.py 42-56: /chat up to the call of send_message
Chat(r, data) ==
    /\ Delivered
    /\ mode = "facade" /\ pc[r] = "idle"
    /\ IF ~client_ok
       THEN Answer(r, 500, NotInitialized) /\ UNCHANGED turns
       ELSE IF data = "invalid_json"
       THEN Fail(r, "BadRequest") /\ UNCHANGED turns
       ELSE IF ~Truthy(data) \/ ~HasMessage(data)
       THEN /\ Answer(r, 400, [error |-> [text |-> "Missing 'message' field in request body"]])
            /\ UNCHANGED turns
       ELSE IF ~IsObject(data)
       THEN Fail(r, "TypeError") /\ UNCHANGED turns
       ELSE /\ turns < TurnLimit
            /\ turns' = turns + 1
            /\ user_message' = [user_message EXCEPT ![r] = turns + 1]
            /\ pc' = [pc EXCEPT ![r] = "send_user"]
            /\ UNCHANGED <<response, flow_info, function_result, answer>>
    /\ UNCHANGED <<mode, shared, ghosts, calls, new_chats, completed, harness>>

\* main.py 52-68: a prompt that is a message
CliPrompt(r) ==
    /\ Delivered
    /\ mode = "cli" /\ r = 1 /\ pc[r] = "idle"
    /\ turns < TurnLimit
    /\ turns' = turns + 1
    /\ user_message' = [user_message EXCEPT ![r] = turns + 1]
    /\ pc' = [pc EXCEPT ![r] = "send_user"]
    /\ UNCHANGED <<mode, shared, response, flow_info, function_result, answer, ghosts,
                   calls, new_chats, completed, harness>>

\* ---------------------------------------------------------- send_message
\* the responses the model can give now
ResponsesNow ==
    TextResponses(mode) \cup (IF calls < CallLimit THEN CallResponses(mode) ELSE {})

Counted(resp) == IF IsFunctionCall(resp) THEN calls + 1 ELSE calls

UserContent(r) == [text |-> user_message[r]]

\* gemini_client.py 40-56: start a session if there is none, send the user
\* message, set up flow_info
SendUser(r) ==
    /\ LET fresh == chat = 0
           session == IF fresh THEN sessions + 1 ELSE chat
           log == IF fresh THEN <<>> ELSE chat_log
       IN
       /\ chat' = session
       /\ sessions' = (IF fresh THEN sessions + 1 ELSE sessions)
       /\ conversation_history' = (IF fresh THEN <<>> ELSE conversation_history)
       /\ \/ /\ Fail(r, "GeminiError")
             /\ chat_log' = log
             /\ UNCHANGED <<ghosts, calls>>
          \/ \E resp \in ResponsesNow :
             /\ chat_log' = Append(log, [turn |-> user_message[r], kind |-> "user"])
             /\ response' = [response EXCEPT ![r] = resp]
             /\ flow_info' = [flow_info EXCEPT ![r] =
                    [user_message |-> user_message[r], function_calls |-> <<>>,
                     api_responses |-> <<>>, final_response |-> None]]
             /\ sent' = [sent EXCEPT ![r] =
                    <<[kind |-> "user", session |-> session, content |-> UserContent(r)]>>]
             /\ received' = [received EXCEPT ![r] = <<resp>>]
             /\ calls' = Counted(resp)
             /\ pc' = [pc EXCEPT ![r] = "loop"]
             /\ UNCHANGED <<user_message, function_result, answer, executed>>
    /\ UNCHANGED <<mode, client_ok, turns, new_chats, completed, harness>>

\* mutant: send_message is entered under a lock that spans the call
SendUserMessageLocked(r) ==
    /\ \A q \in Requests \ {r} : pc[q] \notin {"loop", "respond", "append"}
    /\ Delivered
    /\ pc[r] = "send_user"
    /\ SendUser(r)

\* app.py 59 and main.py 68: the caller enters send_message; nothing is locked
SendUserMessage(r) ==
    /\ Delivered
    /\ pc[r] = "send_user"
    /\ SendUser(r)

\* mutant: the length test of the loop condition is off by one
LoopContinuesOffByOne(r) ==
    IsFunctionCall(response[r]) /\ Len(PartsOf(response[r])) > 1

\* mutant: the loop gives up after one round trip
LoopContinuesCapped(r) ==
    IsFunctionCall(response[r]) /\ Len(flow_info[r].function_calls) < 1

\* gemini_client.py 60-66: the loop goes on
LoopContinues(r) == IsFunctionCall(response[r])

\* mutant: the function call is taken from the last part
FunctionCallOfLast(resp) ==
    resp.candidates[1].content.parts[Len(resp.candidates[1].content.parts)].function_call

\* gemini_client.py 68: response.candidates[0].content.parts[0].function_call
FunctionCallOf(resp) == resp.candidates[1].content.parts[1].function_call

\* mutant: the call is put in front of the earlier ones
RecordCallFirst(flow, function_name, function_args) ==
    [flow EXCEPT !.function_calls =
        <<[name |-> function_name, arguments |-> function_args]>> \o @]

\* gemini_client.py 99-102
RecordCall(flow, function_name, function_args) ==
    [flow EXCEPT !.function_calls =
        Append(@, [name |-> function_name, arguments |-> function_args])]

\* mutant: data and error change places in the record
RecordResponseSwapped(flow, function_name, result) ==
    [flow EXCEPT !.api_responses =
        Append(@, [function_name |-> function_name,
                   success |-> result.success,
                   data |-> Get(result, "error"),
                   error |-> Get(result, "data")])]

\* gemini_client.py 125-130
RecordResponse(flow, function_name, result) ==
    [flow EXCEPT !.api_responses =
        Append(@, [function_name |-> function_name,
                   success |-> result.success,
                   data |-> Get(result, "data"),
                   error |-> Get(result, "error")])]

\* gemini_client.py 60-130: one function call of the model, executed and recorded
ExecuteFunction(r) ==
    /\ Delivered
    /\ pc[r] = "loop" /\ LoopContinues(r)
    /\ LET function_call == FunctionCallOf(response[r])
           function_name == function_call.name
           function_args == ArgsToDict(function_call.args)
       IN  \E reply \in LoopReplies(mode, function_name) :
           LET out == execute_function(function_name, function_args, reply)
           IN  /\ executed' = [executed EXCEPT ![r] = Append(@,
                      [name |-> function_name, http |-> out.http, raised |-> out.raised,
                       reply |-> IF out.http = 0 THEN "" ELSE reply.status])]
               /\ IF out.raised # ""
                  THEN Fail(r, out.raised)
                  ELSE /\ flow_info' = [flow_info EXCEPT ![r] =
                              RecordResponse(
                                  RecordCall(@, function_name, function_args),
                                  function_name, out.result)]
                       /\ function_result' = [function_result EXCEPT ![r] = out.result]
                       /\ pc' = [pc EXCEPT ![r] = "respond"]
                       /\ UNCHANGED <<user_message, response, answer>>
    /\ UNCHANGED <<mode, shared, sent, received, budget, harness>>

LastCall(r) == flow_info[r].function_calls[Len(flow_info[r].function_calls)]

\* gemini_client.py 134-141: function_response_data
FunctionResponseData(function_name, result) ==
    [function_response |->
        [name |-> function_name,
         response |-> IF result.success
                      THEN Get(result, "data")
                      ELSE [error |-> GetOr(result, "error", [text |-> "Unknown error"])]]]

\* mutant: a turn that fails at the model call is appended as far as it got
SendFunctionResponsePartial(r) ==
    /\ Delivered
    /\ pc[r] = "respond"
    /\ \/ /\ Fail(r, "GeminiError")
          /\ conversation_history' = Append(conversation_history, flow_info[r])
          /\ UNCHANGED <<chat_log, ghosts, calls>>
       \/ \E resp \in ResponsesNow :
          /\ chat_log' = Append(chat_log,
                 [turn |-> user_message[r], kind |-> "function_response"])
          /\ response' = [response EXCEPT ![r] = resp]
          /\ sent' = [sent EXCEPT ![r] = Append(@,
                 [kind |-> "function_response", session |-> chat,
                  content |-> [echo |-> response[r].candidates[1].content,
                               data |-> FunctionResponseData(LastCall(r).name,
                                                             function_result[r])]])]
          /\ received' = [received EXCEPT ![r] = Append(@, resp)]
          /\ calls' = Counted(resp)
          /\ pc' = [pc EXCEPT ![r] = "loop"]
          /\ UNCHANGED <<user_message, flow_info, function_result, answer, executed,
                         conversation_history>>
    /\ UNCHANGED <<mode, client_ok, chat, sessions, turns, new_chats, completed, harness>>

\* gemini_client.py 132-148: the result goes back to the session client.chat
SendFunctionResponse(r) ==
    /\ Delivered
    /\ pc[r] = "respond"
    /\ \/ /\ Fail(r, "GeminiError")
          /\ UNCHANGED <<chat_log, ghosts, calls>>
       \/ \E resp \in ResponsesNow :
          /\ chat_log' = Append(chat_log,
                 [turn |-> user_message[r], kind |-> "function_response"])
          /\ response' = [response EXCEPT ![r] = resp]
          /\ sent' = [sent EXCEPT ![r] = Append(@,
                 [kind |-> "function_response", session |-> chat,
                  content |-> [echo |-> response[r].candidates[1].content,
                               data |-> FunctionResponseData(LastCall(r).name,
                                                             function_result[r])]])]
          /\ received' = [received EXCEPT ![r] = Append(@, resp)]
          /\ calls' = Counted(resp)
          /\ pc' = [pc EXCEPT ![r] = "loop"]
          /\ UNCHANGED <<user_message, flow_info, function_result, answer, executed>>
    /\ UNCHANGED <<mode, client_ok, chat, sessions, conversation_history, turns,
                   new_chats, completed, harness>>

\* gemini_client.py 150-160: the loop is over, the text is the final response
ReturnFinal(r) ==
    /\ Delivered
    /\ pc[r] = "loop" /\ ~LoopContinues(r)
    /\ \E out \in ResponseTexts(response[r]) :
          IF out.raised # ""
          THEN Fail(r, out.raised) /\ UNCHANGED completed
          ELSE /\ flow_info' = [flow_info EXCEPT ![r] =
                      [@ EXCEPT !.final_response = out.result]]
               /\ pc' = [pc EXCEPT ![r] = "append"]
               /\ completed' = completed + 1
               /\ UNCHANGED <<user_message, response, function_result, answer>>
    /\ UNCHANGED <<mode, shared, ghosts, turns, calls, new_chats, harness>>

\* app.py 60-66 and main.py 71: the caller appends the flow to the history
\* mutant: the flow is appended twice
AppendedTwice(history, flow) == history \o <<flow, flow>>

\* mutant: the flow is put in front of the earlier ones
AppendedInFront(history, flow) == <<flow>> \o history

\* app.py 60 and main.py 71: conversation_history.append(flow_info)
Appended(history, flow) == Append(history, flow)

AppendHistory(r) ==
    /\ Delivered
    /\ pc[r] = "append"
    /\ conversation_history' = Appended(conversation_history, flow_info[r])
    /\ Answer(r, IF mode = "facade" THEN 200 ELSE 0,
              [response |-> flow_info[r].final_response,
               function_calls |-> flow_info[r].function_calls,
               api_responses |-> flow_info[r].api_responses])
    /\ UNCHANGED <<mode, client_ok, chat, sessions, chat_log, ghosts, budget, harness>>

\* mutant: /chat/new waits until no /chat request is under way
NewChatExclusive(r) ==
    /\ Delivered
    /\ mode = "facade" /\ pc[r] = "idle"
    /\ \A q \in Requests \ {r} : pc[q] \notin {"send_user", "loop", "respond", "append"}
    /\ IF ~client_ok
       THEN /\ Answer(r, 500, NotInitialized)
            /\ UNCHANGED <<chat, sessions, chat_log, new_chats>>
       ELSE /\ new_chats < MaxNewChats
            /\ new_chats' = new_chats + 1
            /\ chat' = sessions + 1
            /\ sessions' = sessions + 1
            /\ chat_log' = <<>>
            /\ pc' = [pc EXCEPT ![r] = "clear"]
            /\ UNCHANGED <<locals, answer>>
    /\ UNCHANGED <<mode, client_ok, conversation_history, ghosts, turns, calls, completed,
                   harness>>

\* app.py 72-81 and gemini_client.py 26: /chat/new, the new session
NewChat(r) ==
    /\ Delivered
    /\ mode = "facade" /\ pc[r] = "idle"
    /\ IF ~client_ok
       THEN /\ Answer(r, 500, NotInitialized)
            /\ UNCHANGED <<chat, sessions, chat_log, new_chats>>
       ELSE /\ new_chats < MaxNewChats
            /\ new_chats' = new_chats + 1
            /\ chat' = sessions + 1
            /\ sessions' = sessions + 1
            /\ chat_log' = <<>>
            /\ pc' = [pc EXCEPT ![r] = "clear"]
            /\ UNCHANGED <<locals, answer>>
    /\ UNCHANGED <<mode, client_ok, conversation_history, ghosts, turns, calls, completed,
                   harness>>

\* mutant: the new session keeps the history
NewChatKeeps(r) ==
    /\ Delivered
    /\ pc[r] = "clear"
    /\ Answer(r, 200, [conversation_history_cleared |-> TRUE])
    /\ UNCHANGED <<mode, shared, ghosts, budget, harness>>

\* gemini_client.py 27 and app.py 82-85: the history is cleared
NewChatClear(r) ==
    /\ Delivered
    /\ pc[r] = "clear"
    /\ conversation_history' = <<>>
    /\ Answer(r, 200, [conversation_history_cleared |-> TRUE])
    /\ UNCHANGED <<mode, client_ok, chat, sessions, chat_log, ghosts, budget, harness>>

\* mutant: /history does not test the client
GetHistoryUnchecked(r) ==
    /\ Delivered
    /\ mode = "facade" /\ pc[r] = "idle"
    /\ Answer(r, 200, [conversation_history |-> conversation_history])
    /\ UNCHANGED <<mode, shared, ghosts, budget, harness>>

\* app.py 90-104
GetHistory(r) ==
    /\ Delivered
    /\ mode = "facade" /\ pc[r] = "idle"
    /\ IF client_ok
       THEN Answer(r, 200, [conversation_history |-> conversation_history])
       ELSE Answer(r, 500, NotInitialized)
    /\ UNCHANGED <<mode, shared, ghosts, budget, harness>>

\* the answer is delivered; the request is over
Finish(r) ==
    /\ pc[r] = "replied"
    /\ pc' = [pc EXCEPT ![r] = "idle"]
    /\ status' = [status EXCEPT ![r] = 0]
    /\ body' = [body EXCEPT ![r] = None]
    /\ sent' = [sent EXCEPT ![r] = <<>>]
    /\ received' = [received EXCEPT ![r] = <<>>]
    /\ executed' = [executed EXCEPT ![r] = <<>>]
    /\ UNCHANGED <<mode, shared, locals, budget, harness>>

SendMessage(r) ==
    \/ SendUserMessage(r)
    \/ ExecuteFunction(r)
    \/ SendFunctionResponse(r)
    \/ ReturnFinal(r)

Next ==
    \E r \in Requests :
        \/ Health(r)
        \/ \E data \in RequestBodies : Chat(r, data)
        \/ SendMessage(r)
        \/ AppendHistory(r)
        \/ NewChat(r)
        \/ NewChatClear(r)
        \/ GetHistory(r)
        \/ Finish(r)

Spec == Init /\ [][Next]_vars

NextCli ==
    \/ CliPrompt(1)
    \/ SendMessage(1)
    \/ AppendHistory(1)
    \/ Finish(1)

SpecCli == InitCli /\ [][NextCli]_vars

\* ------------------------------------------------- the executor on its own
\* place names handed to geocodeLocation
Locations == {
    RomeNY,
    <<" ","R","o","m","e",","," ","N","Y"," ">>,
    <<"r","o","m","e",","," ","n","y">>,
    <<"R","o","m","e">>,
    <<"N","Y">>,
    <<"B","o","s","t","o","n",","," ","M","A",","," ","U","S","A">>,
    Paris,
    <<"O","s","l","o">>,
    <<"N","e","w"," ","Y","o","r","k",","," ","N","Y">>,
    <<"B","o","s","t","o","n",","," ","M","A">>,
    <<" "," ">>,
    <<>> }

ExecutorCalls ==
    {[name |-> "createBroadcast", args |-> CreateArgs],
     [name |-> "findNearbyBroadcasts", args |-> NearbyArgs],
     [name |-> "geocodeLocation", args |-> EmptyDict],
     [name |-> "deleteBroadcast", args |-> CreateArgs],
     [name |-> "geocode_location", args |-> [location |-> RomeNY]],
     [name |-> "", args |-> EmptyDict]}
    \cup {[name |-> "geocodeLocation", args |-> [location |-> place]] : place \in Locations}

\* functions.py 448-466: one call of execute_function
Execute(call, reply) ==
    /\ mode = "exec"
    /\ x_count < MaxExec
    /\ x_count' = x_count + 1
    /\ x_call' = [name |-> call.name, args |-> call.args, reply |-> reply]
    /\ x_out' = execute_function(call.name, call.args, reply)
    /\ UNCHANGED <<mode, shared, pc, locals, answer, ghosts, budget>>

NextExec == \E call \in ExecutorCalls : \E reply \in RepliesFor(call.name) : Execute(call, reply)

SpecExec == InitExec /\ [][NextExec]_vars

\* ------------------------------------ the schema-to-declaration converter
\* a number of the parsed OpenAPI document: an int, or a float held in tenths
IntNum(n) == [kind |-> "int", val |-> n]
FloatNum(tenths) == [kind |-> "float", val |-> tenths]

RECURSIVE NatStr(_)
NatStr(n) ==
    IF n < 10 THEN <<Digits[n + 1]>>
    ELSE NatStr(n \div 10) \o <<Digits[(n % 10) + 1]>>

\* str(x) as an f-string formats a number: 90, -90.0, 0.5
NumStr(num) ==
    LET a == IF num.val < 0 THEN -num.val ELSE num.val
        sign == IF num.val < 0 THEN <<"-">> ELSE <<>>
    IN  IF num.kind = "int" THEN sign \o NatStr(a)
        ELSE sign \o NatStr(a \div 10) \o <<".">> \o NatStr(a % 10)

MinimumLabel == <<"m","i","n","i","m","u","m",":"," ">>
MaximumLabel == <<"m","a","x","i","m","u","m",":"," ">>
ConstraintsOpen == <<" ","(","C","o","n","s","t","r","a","i","n","t","s",":"," ">>
ConstraintsClose == <<")">>

\* ', '.join(constraints)
RECURSIVE JoinComma(_)
JoinComma(items) ==
    IF items = <<>> THEN <<>>
    ELSE IF Len(items) = 1 THEN items[1]
    ELSE items[1] \o <<",", " ">> \o JoinComma(Tail(items))

\* mutant: a bound is listed only when it is truthy, so a bound of 0 is lost
ConstraintsTruthy(schema) ==
    (IF "minimum" \in DOMAIN schema /\ schema.minimum.val # 0
     THEN <<MinimumLabel \o NumStr(schema.minimum)>> ELSE <<>>)
    \o (IF "maximum" \in DOMAIN schema /\ schema.maximum.val # 0
        THEN <<MaximumLabel \o NumStr(schema.maximum)>> ELSE <<>>)

\* functions.py 217-221 and 269-273: constraints
Constraints(schema) ==
    (IF "minimum" \in DOMAIN schema
     THEN <<MinimumLabel \o NumStr(schema.minimum)>> ELSE <<>>)
    \o (IF "maximum" \in DOMAIN schema
        THEN <<MaximumLabel \o NumStr(schema.maximum)>> ELSE <<>>)

\* functions.py 216-224 and 268-276: the bounds go into the description
FoldConstraints(description, schema) ==
    IF ("minimum" \in DOMAIN schema \/ "maximum" \in DOMAIN schema)
       /\ Constraints(schema) # <<>>
    THEN Strip(description \o ConstraintsOpen \o JoinComma(Constraints(schema))
               \o ConstraintsClose)
    ELSE description

\* functions.py 207-212 and 261-264: a key that is copied when present
Copied(schema, key) == IF key \in DOMAIN schema THEN key :> schema[key] ELSE EmptyDict

\* functions.py 201-226: one property of a schema
ConvertProperty(prop_schema) ==
    [type |-> GetOr(prop_schema, "type", "string"),
     description |-> FoldConstraints(GetOr(prop_schema, "description", <<>>), prop_schema)]
    @@ Copied(prop_schema, "format") @@ Copied(prop_schema, "enum")

\* functions.py 191-228
convert_openapi_schema_to_json(schema) ==
    [type |-> GetOr(schema, "type", "object"),
     properties |-> IF "properties" \in DOMAIN schema
                    THEN [n \in DOMAIN schema.properties |->
                             ConvertProperty(schema.properties[n])]
                    ELSE EmptyDict,
     required |-> GetOr(schema, "required", <<>>)]

\* a reference is held as its segments between the slashes
ComponentsPrefix == <<"#", "components", "schemas">>
IsComponentRef(schema_ref) ==
    Len(schema_ref) > 3 /\ SubSeq(schema_ref, 1, 3) = ComponentsPrefix

\* functions.py 183-189
convert_schema(components, schema_ref) ==
    IF IsComponentRef(schema_ref)
    THEN convert_openapi_schema_to_json(
             GetOr(components, schema_ref[Len(schema_ref)], EmptyDict))
    ELSE EmptyDict

\* functions.py 252-278: one parameter of the query
ConvertParameter(param) ==
    LET param_schema == GetOr(param, "schema", EmptyDict)
    IN  [type |-> GetOr(param_schema, "type", "string"),
         description |-> FoldConstraints(GetOr(param, "description", <<>>), param_schema)]
        @@ Copied(param_schema, "format") @@ Copied(param_schema, "enum")

\* functions.py 250-281: the names of the required parameters, in order
RECURSIVE RequiredNames(_)
RequiredNames(parameters) ==
    IF parameters = <<>> THEN <<>>
    ELSE (IF GetOr(parameters[1], "required", FALSE) THEN <<parameters[1].name>> ELSE <<>>)
         \o RequiredNames(Tail(parameters))

\* functions.py 249-278: properties[param_name] = prop, a later parameter of
\* the same name replacing an earlier one
ParameterProperties(parameters) ==
    [n \in {parameters[i].name : i \in 1..Len(parameters)} |->
        ConvertParameter(parameters[
            CHOOSE i \in 1..Len(parameters) :
                /\ parameters[i].name = n
                /\ \A j \in (i + 1)..Len(parameters) : parameters[j].name # n])]

CreateDefault == <<"C","r","e","a","t","e"," ","a"," ","n","e","w"," ","b","r","o","a","d","c","a","s","t">>
NearbyDefault == <<"F","i","n","d"," ","p","e","o","p","l","e"," ","n","e","a","r"," ","y","o","u">>

\* functions.py 230-241: createBroadcast from POST /broadcasts
CreateDeclaration(openapi_spec) ==
    LET paths == openapi_spec.paths
    IN  IF "/broadcasts" \in DOMAIN paths /\ "post" \in DOMAIN paths["/broadcasts"]
        THEN LET post_op == paths["/broadcasts"]["post"]
                 request_schema_ref == GetOr(post_op, "schema_ref", <<>>)
             IN  IF request_schema_ref # <<>>
                 THEN << [name |-> "createBroadcast",
                          description |-> GetOr(post_op, "description", CreateDefault),
                          parameters |-> convert_schema(openapi_spec.schemas,
                                                        request_schema_ref)] >>
                 ELSE <<>>
        ELSE <<>>

\* functions.py 243-291: findNearbyBroadcasts from GET /broadcasts/nearby
NearbyDeclaration(openapi_spec) ==
    LET paths == openapi_spec.paths
    IN  IF "/broadcasts/nearby" \in DOMAIN paths
           /\ "get" \in DOMAIN paths["/broadcasts/nearby"]
        THEN LET get_op == paths["/broadcasts/nearby"]["get"]
                 parameters == GetOr(get_op, "parameters", <<>>)
             IN  << [name |-> "findNearbyBroadcasts",
                     description |-> GetOr(get_op, "description", NearbyDefault),
                     parameters |-> [type |-> "object",
                                     properties |-> ParameterProperties(parameters),
                                     required |-> RequiredNames(parameters)]] >>
        ELSE <<>>

\* functions.py 173-293
convert_openapi_to_gemini_functions(openapi_spec) ==
    CreateDeclaration(openapi_spec) \o NearbyDeclaration(openapi_spec)

\* ------------------------------------------- the documents it is given
Optional(key, values) == {EmptyDict} \cup {key :> v : v \in values}

\* number schemas with and without a description, a minimum and a maximum
NumberSchemas ==
    {[type |-> "number"] @@ d @@ mn @@ mx :
        d \in Optional("description", {<<"l","a","t">>, <<" ","r"," ">>}),
        mn \in Optional("minimum", {IntNum(0), FloatNum(-900)}),
        mx \in Optional("maximum", {IntNum(90), FloatNum(5)})}

EnumSchema ==
    [type |-> "string", description |-> <<"k","i","n","d">>,
     enum |-> <<"mincha", "maariv">>, format |-> "word"]
UntypedSchema == ("minimum" :> IntNum(1)) @@ ("maximum" :> IntNum(10))
SecondSchemas == {EnumSchema, UntypedSchema, [type |-> "number"]}

RequestSchemas ==
    {[type |-> "object", properties |-> ("latitude" :> p), required |-> <<"latitude">>] :
        p \in NumberSchemas}
    \cup {[properties |-> ("latitude" :> p) @@ ("minyanType" :> q)] :
            p \in NumberSchemas, q \in SecondSchemas}
    \cup {EmptyDict, [type |-> "object"]}

ComponentRef == <<"#", "components", "schemas", "BroadcastRequest">>
OddPostOps ==
    {EmptyDict,
     [schema_ref |-> <<"#", "definitions", "BroadcastRequest">>],
     [schema_ref |-> <<"#", "components", "schemas", "Missing">>]}

\* the part of a document that createBroadcast is made from
CreateInputs ==
    {[paths |-> "/broadcasts" :> ("post" :> [description |-> <<"p","o","s","t","e","d">>,
                                             schema_ref |-> ComponentRef]),
      schemas |-> "BroadcastRequest" :> s] : s \in RequestSchemas}
    \cup {[paths |-> p, schemas |-> "BroadcastRequest" :> [type |-> "object"]] :
            p \in {EmptyDict, "/broadcasts" :> ("get" :> EmptyDict)}
                  \cup {"/broadcasts" :> ("post" :> op) : op \in OddPostOps}}

\* a query parameter: its description stands beside its schema
Parameter(name, p) ==
    [name |-> name, required |-> TRUE,
     schema |-> [k \in DOMAIN p \ {"description"} |-> p[k]]]
    @@ Copied(p, "description")

ParameterLists ==
    {<<>>, << [name |-> "radius"] >>}
    \cup {<< Parameter("latitude", p) >> : p \in NumberSchemas}
    \cup {<< Parameter("latitude", p), [name |-> "radius", schema |-> UntypedSchema] >> :
            p \in NumberSchemas}

\* the part of a document that findNearbyBroadcasts is made from
NearbyInputs ==
    {EmptyDict, "/broadcasts/nearby" :> ("post" :> EmptyDict),
     "/broadcasts/nearby" :> ("get" :> EmptyDict)}
    \cup {"/broadcasts/nearby" :> ("get" :> [parameters |-> ps]) : ps \in ParameterLists}

OpenApiSpecs ==
    {[paths |-> c.paths @@ n, schemas |-> c.schemas] : c \in CreateInputs, n \in NearbyInputs}

\* functions.py 469-477: the document is loaded, then converted
InitConv ==
    /\ mode = "conv"
    /\ client_ok = TRUE
    /\ InitShared /\ InitFrames
    /\ x_call \in OpenApiSpecs /\ x_out = <<>> /\ x_count = 0

Convert ==
    /\ mode = "conv"
    /\ x_count = 0
    /\ x_count' = x_count + 1
    /\ x_out' = convert_openapi_to_gemini_functions(x_call)
    /\ UNCHANGED <<mode, shared, pc, locals, answer, ghosts, budget, x_call>>

NextConv == Convert

SpecConv == InitConv /\ [][NextConv]_vars

\* ------------------------------------------------------------------ claims
\* what the claims say of a response: its first part names a function
DesignatesCall(resp) ==
    /\ resp.candidates # <<>>
    /\ resp.candidates[1].content.parts # <<>>
    /\ "name" \in DOMAIN resp.candidates[1].content.parts[1].function_call

CalledName(resp) == resp.candidates[1].content.parts[1].function_call.name

Last(seq) == seq[Len(seq)]

CallResponsesIn(seq) == {i \in 1..Len(seq) : DesignatesCall(seq[i])}

TextPartsOf(resp) ==
    SelectSeq(PartsOf(resp), LAMBDA part : "name" \notin DOMAIN part.function_call)

Texts(parts) == [i \in 1..Len(parts) |-> parts[i].text]
Names(records) == [i \in 1..Len(records) |-> records[i].name]
FunctionNames(records) == [i \in 1..Len(records) |-> records[i].function_name]

InSendMessage(r) == pc[r] \in {"loop", "respond", "append"}

\* C1: within one call of send_message the user message goes to the model
\* first; every later message is the function response to the function call
\* the model gave just before, sent once that function was executed; the call
\* returns only on a response that is no function call, with that response's
\* text as final_response, having executed as many functions as it received
\* function-call responses.
C1_FunctionCallLoop ==
    \A r \in Requests :
        InSendMessage(r) =>
            /\ sent[r][1].kind = "user"
            /\ sent[r][1].content = [text |-> flow_info[r].user_message]
            /\ Len(received[r]) = Len(sent[r])
            /\ \A i \in 2..Len(sent[r]) :
                   /\ sent[r][i].kind = "function_response"
                   /\ DesignatesCall(received[r][i - 1])
                   /\ sent[r][i].content.data.function_response.name
                          = CalledName(received[r][i - 1])
                   /\ executed[r][i - 1].name = CalledName(received[r][i - 1])
            /\ Len(executed[r]) = Len(sent[r]) - (IF pc[r] = "respond" THEN 0 ELSE 1)
            /\ pc[r] = "respond" => DesignatesCall(Last(received[r]))
            /\ pc[r] = "append" =>
                   /\ ~DesignatesCall(Last(received[r]))
                   /\ flow_info[r].final_response
                          = [text |-> Texts(TextPartsOf(Last(received[r])))]
                   /\ Len(executed[r]) = Cardinality(CallResponsesIn(received[r]))

\* a call that returned after two round trips
C1_Witness ==
    /\ pc[1] = "append"
    /\ Len(executed[1]) = 2
    /\ Len(sent[1]) = 3

CreateThenFind(seq) ==
    /\ Len(seq) = 3
    /\ DesignatesCall(seq[1]) /\ CalledName(seq[1]) = "createBroadcast"
    /\ DesignatesCall(seq[2]) /\ CalledName(seq[2]) = "findNearbyBroadcasts"
    /\ ~DesignatesCall(seq[3])

\* C2: when the model answers the user message with a createBroadcast call,
\* that call's function response with a findNearbyBroadcasts call and the
\* second function response with text, send_message executes createBroadcast
\* and then findNearbyBroadcasts and nothing else, returns on the text with
\* both calls and both results recorded in that order, and the caller puts
\* that record in the history.
C2_CreateThenFind ==
    \A r \in Requests :
        CreateThenFind(received[r]) =>
            /\ Names(executed[r]) = <<"createBroadcast", "findNearbyBroadcasts">>
            /\ pc[r] = "append" =>
                   /\ Names(flow_info[r].function_calls)
                          = <<"createBroadcast", "findNearbyBroadcasts">>
                   /\ FunctionNames(flow_info[r].api_responses)
                          = <<"createBroadcast", "findNearbyBroadcasts">>
            /\ (pc[r] = "replied" /\ "response" \in DOMAIN body[r]) =>
                   /\ conversation_history # <<>>
                   /\ Names(Last(conversation_history).function_calls)
                          = <<"createBroadcast", "findNearbyBroadcasts">>
                   /\ FunctionNames(Last(conversation_history).api_responses)
                          = <<"createBroadcast", "findNearbyBroadcasts">>
                   /\ Last(conversation_history).final_response = body[r].response

\* the scenario has run and its record is in the history
C2_Witness ==
    /\ CreateThenFind(received[1])
    /\ pc[1] = "replied"
    /\ Len(conversation_history) = 1
    /\ Len(conversation_history[1].api_responses) = 2
    /\ conversation_history[1].api_responses[1].success
    /\ conversation_history[1].api_responses[2].success

\* C3 as stated: the history is as long as send_message has returned often.
C3_Original == Len(conversation_history) = completed

Appending == {r \in Requests : pc[r] = "append"}

\* C3, amended: send_message does not append, its caller does, and a new
\* session clears the history. The history is never longer than the number
\* of completed send-message calls; until a new session is started its length
\* is that number less the calls whose caller has not appended yet; each entry
\* holds the user text, the tool calls of its turn in order with one result
\* each, and the final text.
C3_HistoryLength ==
    /\ Len(conversation_history) <= completed
    /\ new_chats = 0 => Len(conversation_history) + Cardinality(Appending) = completed
    /\ \A i \in 1..Len(conversation_history) :
           LET entry == conversation_history[i]
           IN  /\ entry.user_message \in 1..turns
               /\ "text" \in DOMAIN entry.final_response
               /\ Len(entry.api_responses) = Len(entry.function_calls)
    /\ \A r \in Requests :
           (pc[r] = "replied" /\ "response" \in DOMAIN body[r]) =>
               /\ conversation_history # <<>>
               /\ Last(conversation_history).user_message = sent[r][1].content.text
               /\ Names(Last(conversation_history).function_calls) = Names(executed[r])
               /\ Last(conversation_history).final_response
                      = [text |-> Texts(TextPartsOf(Last(received[r])))]

\* two turns are in the history, one of them with a tool call
C3_Witness ==
    /\ Len(conversation_history) = 2
    /\ completed = 2
    /\ new_chats = 0
    /\ \E i \in 1..2 : Len(conversation_history[i].function_calls) = 1

\* C4: the loop has no cap on its round trips. While the latest response is a
\* function call, however many came before in the turn, send_message does
\* not return: its one step is to execute that call, and the step after an
\* execution sends the result to the model, whose answer may be one more call.
C4_NoIterationCap ==
    [][\A r \in Requests :
          /\ (pc[r] = "loop" /\ DesignatesCall(response[r]) /\ pc'[r] # "loop") =>
                 /\ Len(executed'[r]) = Len(executed[r]) + 1
                 /\ pc'[r] \in {"respond", "replied"}
                 /\ pc'[r] = "replied" => Last(executed'[r]).raised # ""
          /\ (pc[r] = "respond" /\ pc'[r] = "loop") =>
                 Len(sent'[r]) = Len(sent[r]) + 1
      ]_vars

\* as many executions in one turn as the model gives function calls in a run
C4_Witness ==
    /\ pc[1] = "respond"
    /\ Len(executed[1]) = CliCalls
    /\ calls = CliCalls
    /\ turns = 1

UnknownError(name) == [text |-> "Unknown function", name |-> name]
KnownFunctions == {"createBroadcast", "findNearbyBroadcasts", "geocodeLocation"}
ErrorPayload(message) == [error |-> message]

\* the i-th execution of the call r neither raised nor ended the call
Continued(r, i) ==
    /\ executed[r][i].raised = ""
    /\ (i = Len(executed[r]) /\ Len(sent[r]) = i) =>
           \/ pc[r] = "respond"
           \/ pc[r] = "replied" /\ body[r] = [error |-> [text |-> "GeminiError"]]

\* the i-th execution of the call r is recorded with this error and nothing
\* else, and the model is sent the error as the function's response
SurfacedAsError(r, i, message) ==
    /\ InSendMessage(r) =>
           flow_info[r].api_responses[i]
               = [function_name |-> executed[r][i].name, success |-> FALSE,
                  data |-> None, error |-> message]
    /\ Len(sent[r]) > i =>
           /\ sent[r][i + 1].content.data.function_response
                  = [name |-> executed[r][i].name, response |-> ErrorPayload(message)]
           /\ Len(received[r]) > i

\* C5: for a name that is no handler, execute_function returns success=false
\* with the unknown-function error, raises nothing and sends no HTTP request;
\* in send_message the error is recorded in api_responses and sent to the
\* model as an error payload, and the loop goes on with the next response.
C5_UnknownFunction ==
    /\ \A name \in {"deleteBroadcast", "geocode_location", ""} :
       \A reply \in MinyanReplies :
           execute_function(name, CreateArgs, reply)
               = Returned([success |-> FALSE, error |-> UnknownError(name)], 0)
    /\ \A r \in Requests : \A i \in 1..Len(executed[r]) :
           executed[r][i].name \notin KnownFunctions =>
               /\ executed[r][i].http = 0
               /\ Continued(r, i)
               /\ SurfacedAsError(r, i, UnknownError(executed[r][i].name))

\* the model asked for an unknown function and has answered its error
C5_Witness ==
    /\ pc[1] = "loop"
    /\ Len(executed[1]) = 1
    /\ executed[1][1].name = "deleteBroadcast"
    /\ Len(received[1]) = 2

\* C6: a createBroadcast or findNearbyBroadcasts request that fails (network
\* error, timeout, 4xx, 5xx) is caught by the handler, which returns
\* success=false; send_message sends the model a function response whose
\* payload is the error, raises nothing and goes on with the next response.
C6_RequestFailure ==
    /\ \A kind \in FailureKinds :
           /\ handle_create_broadcast(CreateArgs, Failed(kind, None)).raised = ""
           /\ ~handle_create_broadcast(CreateArgs, Failed(kind, None)).result.success
           /\ handle_find_nearby_broadcasts(NearbyArgs, Failed(kind, None)).raised = ""
           /\ ~handle_find_nearby_broadcasts(NearbyArgs, Failed(kind, None)).result.success
    /\ \A r \in Requests : \A i \in 1..Len(executed[r]) :
           (/\ executed[r][i].name \in {"createBroadcast", "findNearbyBroadcasts"}
            /\ executed[r][i].reply \in FailureKinds) =>
               /\ Continued(r, i)
               /\ SurfacedAsError(r, i, [text |-> ExceptionText(executed[r][i].reply)])

\* a failed createBroadcast was answered by the model
C6_Witness ==
    /\ pc[1] = "loop"
    /\ Len(executed[1]) = 1
    /\ executed[1][1].name = "createBroadcast"
    /\ executed[1][1].reply = "http_4xx"
    /\ Len(received[1]) = 2

\* C7: nothing is retried. A function call of the model causes at most one
\* outbound HTTP request and is executed once; its result, failed or not, is
\* recorded once in api_responses and sent to the model once, as an error
\* payload exactly when it failed.
C7_NoRetry ==
    \A r \in Requests :
        /\ \A i \in 1..Len(executed[r]) : executed[r][i].http <= 1
        /\ Len(executed[r]) <= Cardinality(CallResponsesIn(received[r]))
        /\ InSendMessage(r) =>
               /\ Len(flow_info[r].api_responses) = Len(executed[r])
               /\ Len(flow_info[r].function_calls) = Len(executed[r])
               /\ \A i \in 1..Len(executed[r]) :
                      /\ flow_info[r].api_responses[i].function_name = executed[r][i].name
                      /\ executed[r][i].reply \in FailureKinds =>
                             ~flow_info[r].api_responses[i].success
               /\ Len(sent[r]) - 1 <= Len(executed[r])
               /\ \A i \in 2..Len(sent[r]) :
                      flow_info[r].api_responses[i - 1].success
                          <=> "error" \notin
                                  DOMAIN sent[r][i].content.data.function_response.response

\* two failed requests in one turn, each surfaced and answered
C7_Witness ==
    /\ pc[1] = "loop"
    /\ Len(executed[1]) = 2
    /\ \A i \in 1..2 : executed[1][i].reply \in FailureKinds /\ executed[1][i].http = 1
    /\ Len(sent[1]) = 3

\* the executor harness has called geocodeLocation with a place name
Geocoded == x_count > 0 /\ x_call.name = "geocodeLocation" /\ "location" \in DOMAIN x_call.args

\* the place name matches a key of the table: folded to lower case it equals
\* the key, or the key's part before the comma, or one contains the other
TableMatch(place) ==
    \E key \in CityKeys :
        \/ Lower(key) = Lower(place)
        \/ Lower(Strip(BeforeComma(key))) = Lower(place)
        \/ Contains(Lower(key), Lower(place))
        \/ Contains(Lower(place), Lower(key))

\* the item holds lat and lon as strings that are decimal numbers
Parseable(item) ==
    \A key \in {"lat", "lon"} :
        /\ key \in DOMAIN item
        /\ "str" \in DOMAIN item[key]
        /\ IsFloatLiteral(item[key].str)

NullCoordinate(item) ==
    \E key \in {"lat", "lon"} : key \in DOMAIN item /\ "none" \in DOMAIN item[key]

SurfacesFirstResult ==
    /\ x_out.raised = ""
    /\ x_out.result.success
    /\ x_out.result.data.source # "local_map"
    /\ x_out.result.data.latitude = FloatOf(x_call.reply.body[1].lat.str)
    /\ x_out.result.data.longitude = FloatOf(x_call.reply.body[1].lon.str)

ErrorIs(text) ==
    /\ x_out.raised = ""
    /\ ~x_out.result.success
    /\ x_out.result.error.text = text

C9_LocalMap ==
    (Geocoded /\ x_call.args.location \in CityKeys) =>
        /\ x_out.http = 0
        /\ x_out.raised = ""
        /\ x_out.result.success
        /\ x_out.result.data.latitude = CityEntry(x_call.args.location).lat
        /\ x_out.result.data.longitude = CityEntry(x_call.args.location).lon
        /\ x_out.result.data.source = "local_map"

\* Boston, MA was answered from the table although the service would fail
C9_Witness ==
    /\ Geocoded
    /\ x_call.args.location = <<"B","o","s","t","o","n",","," ","M","A">>
    /\ x_call.reply.status = "timeout"
    /\ x_out.result.data.latitude = 423601
    /\ x_out.result.data.longitude = -710589

\* C10: nothing keeps two /chat requests apart. While one request is in its
\* tool-call round trip a second one can send its user message to the shared
\* session, and a request that has its flow can always append it, whatever
\* the order in which the user messages went to the model.
C10_NoMutualExclusion ==
    \A r \in Requests : \A q \in Requests \ {r} :
        /\ (pc[r] = "send_user" /\ pc[q] = "respond") =>
               ENABLED (SendUserMessage(r) /\ pc'[r] = "loop")
        /\ (pc[r] = "append" /\ pc[q] = "append") => ENABLED AppendHistory(r)

\* the user message of one turn lies in the session between the user message
\* and the function response of another
Interleaved ==
    \E i, j, k \in 1..Len(chat_log) :
        /\ i < j /\ j < k
        /\ chat_log[i].kind = "user"
        /\ chat_log[k].kind = "function_response"
        /\ chat_log[k].turn = chat_log[i].turn
        /\ chat_log[j].kind = "user"
        /\ chat_log[j].turn # chat_log[i].turn

\* two history entries stand in the other order than their user messages in
\* the session
Misordered ==
    \E i, j \in 1..Len(conversation_history) : \E k, l \in 1..Len(chat_log) :
        /\ i < j /\ l < k
        /\ chat_log[k].kind = "user" /\ chat_log[l].kind = "user"
        /\ chat_log[k].turn = conversation_history[i].user_message
        /\ chat_log[l].turn = conversation_history[j].user_message

C10_Witness == Interleaved /\ Misordered

\* the first list is an initial part of the second
IsPrefix(old, new) ==
    /\ Len(old) <= Len(new)
    /\ \A i \in 1..Len(old) : new[i] = old[i]

Clearing == {r \in Requests : pc[r] = "clear"}

\* C11 as stated: no step removes, reorders or changes an entry of the history.
C11_Original == [][IsPrefix(conversation_history, conversation_history')]_vars

\* C11, amended: the history is append-only within a chat session. A step
\* either leaves the entries it finds in place, adding at most one entry at
\* the end, or it is the start of a new session, which replaces the list by
\* the empty list; send-message and get-history never remove, reorder or
\* change an entry.
C11_AppendOnly ==
    [][\/ /\ IsPrefix(conversation_history, conversation_history')
          /\ Len(conversation_history') <= Len(conversation_history) + 1
       \/ /\ conversation_history' = <<>>
          /\ \E r \in Clearing : pc'[r] = "replied"]_vars

\* the first turn is gone from the list a new session emptied, the second
\* turn was appended to it
C11_Witness ==
    /\ new_chats = 1
    /\ completed = 2
    /\ Len(conversation_history) = 1
    /\ conversation_history[1].user_message = 2

\* the bodies of a /chat request that are no object with a 'message' field
MalformedBodies == {data \in RequestBodies : ~(IsObject(data) /\ HasMessage(data))}

\* C12 as stated: with the client initialized, a /chat request whose body is
\* missing, is no object or lacks the 'message' field is answered with HTTP
\* 400, and nothing is sent to the model, nothing is executed and the history
\* stays as it is.
C12_MalformedBodyIs400 ==
    [][\A r \in Requests : \A data \in MalformedBodies :
           (client_ok /\ Chat(r, data)) =>
               /\ status'[r] = 400
               /\ UNCHANGED <<shared, ghosts, budget>>]_vars

\* the answer of the health check without a client
HealthError == [status |-> "error"]

\* C13: when the client was not initialized at startup it never becomes
\* initialized, and every request to the health check, /chat, /chat/new and
\* /history is answered with HTTP 500 and the endpoint's fixed error body;
\* no session exists, nothing is sent to the model, nothing is executed, and
\* the history, the session and the counters of turns stay as they were.
C13_NotInitialized ==
    /\ [][client_ok' = client_ok]_vars
    /\ [](~client_ok =>
            /\ \A r \in Requests :
                   /\ pc[r] \in {"idle", "replied"}
                   /\ pc[r] = "replied" =>
                          /\ status[r] = 500
                          /\ body[r] \in {NotInitialized, HealthError}
                   /\ sent[r] = <<>> /\ received[r] = <<>> /\ executed[r] = <<>>
            /\ chat = 0 /\ sessions = 0
            /\ chat_log = <<>> /\ conversation_history = <<>>
            /\ turns = 0 /\ calls = 0 /\ new_chats = 0 /\ completed = 0)

\* without a client, a request other than the health check was answered
C13_Witness ==
    /\ ~client_ok
    /\ \E r \in Requests : pc[r] = "replied" /\ body[r] = NotInitialized

\* the declarations produced under a name
Declared(name) == {x_out[i] : i \in {j \in 1..Len(x_out) : x_out[j].name = name}}

HasBounds(schema) == {"minimum", "maximum"} \subseteq DOMAIN schema

\* the description produced starts with the original one (less the white
\* space in front of it) and goes on with text that holds both bounds
FoldedInto(produced, original, schema) ==
    LET kept == LStrip(original)
        added == SubSeq(produced, Len(kept) + 1, Len(produced))
    IN  /\ Len(produced) > Len(kept)
        /\ SubSeq(produced, 1, Len(kept)) = kept
        /\ Contains(added, MinimumLabel \o NumStr(schema.minimum))
        /\ Contains(added, MaximumLabel \o NumStr(schema.maximum))

\* the request-body schema of POST /broadcasts, where the document has one
\* that the converter resolves
RequestProperties ==
    LET paths == x_call.paths
    IN  IF /\ "/broadcasts" \in DOMAIN paths
           /\ "post" \in DOMAIN paths["/broadcasts"]
           /\ "schema_ref" \in DOMAIN paths["/broadcasts"]["post"]
           /\ paths["/broadcasts"]["post"].schema_ref = ComponentRef
           /\ "properties" \in DOMAIN x_call.schemas["BroadcastRequest"]
        THEN x_call.schemas["BroadcastRequest"].properties
        ELSE EmptyDict

\* the query parameters of GET /broadcasts/nearby
QueryParameters ==
    LET paths == x_call.paths
    IN  IF /\ "/broadcasts/nearby" \in DOMAIN paths
           /\ "get" \in DOMAIN paths["/broadcasts/nearby"]
           /\ "parameters" \in DOMAIN paths["/broadcasts/nearby"]["get"]
        THEN paths["/broadcasts/nearby"]["get"].parameters
        ELSE <<>>

\* C14: once a document is converted, every request-body property of
\* createBroadcast and every query parameter of findNearbyBroadcasts that
\* declares a numeric minimum and maximum has, in the tool declaration, a
\* description made of the original description followed by text that holds
\* both bounds as Python prints them.
C14_BoundsInDescription ==
    x_count = 1 =>
        /\ \A n \in DOMAIN RequestProperties :
               HasBounds(RequestProperties[n]) =>
                   /\ Cardinality(Declared("createBroadcast")) = 1
                   /\ \A decl \in Declared("createBroadcast") :
                          FoldedInto(decl.parameters.properties[n].description,
                                     GetOr(RequestProperties[n], "description", <<>>),
                                     RequestProperties[n])
        /\ \A i \in 1..Len(QueryParameters) :
               LET param == QueryParameters[i]
               IN  ("schema" \in DOMAIN param /\ HasBounds(param.schema)) =>
                       /\ Cardinality(Declared("findNearbyBroadcasts")) = 1
                       /\ \A decl \in Declared("findNearbyBroadcasts") :
                              FoldedInto(decl.parameters.properties[param.name].description,
                                         GetOr(param, "description", <<>>),
                                         param.schema)

\* a document was converted whose latitude has a minimum of 0 and a maximum
\* both as a request-body property and as a query parameter
C14_Witness ==
    /\ x_count = 1
    /\ "latitude" \in DOMAIN RequestProperties
    /\ HasBounds(RequestProperties["latitude"])
    /\ RequestProperties["latitude"].minimum = IntNum(0)
    /\ Len(QueryParameters) = 2
    /\ HasBounds(QueryParameters[1].schema)
    /\ QueryParameters[1].schema.maximum = FloatNum(5)
    /\ "description" \in DOMAIN QueryParameters[1]

\* the request was answered by /history
HistoryAnswer(r) == pc[r] = "replied" /\ "conversation_history" \in DOMAIN body[r]

\* C15 as stated: once a new session is started and nothing has been sent to
\* it, /history returns an empty history.
C15_Original ==
    \A r \in Requests :
        (HistoryAnswer(r) /\ new_chats > 0 /\ Clearing = {} /\ chat_log = <<>>) =>
            body[r].conversation_history = <<>>

\* C15, amended: /chat/new puts a session never used before in the place of
\* the previous one and then empties the history, so that no turn appended
\* before it is returned any more. /history returns the list as it is, and
\* an empty list stays empty until a /chat request appends its turn, which a
\* request in flight during /chat/new does: a following /history returns an
\* empty history only when no /chat request has appended since.
C15_NewSession ==
    [][/\ \A r \in Requests :
              /\ (pc[r] = "idle" /\ pc'[r] = "clear") =>
                     /\ chat' = sessions + 1 /\ sessions' = sessions + 1
                     /\ chat_log' = <<>>
              /\ (pc[r] = "clear" /\ pc'[r] = "replied") =>
                     /\ conversation_history' = <<>>
                     /\ status'[r] = 200
                     /\ chat' = sessions
              /\ (pc[r] = "idle" /\ pc'[r] = "replied" /\ status'[r] = 200
                  /\ "conversation_history" \in DOMAIN body'[r]) =>
                     body'[r].conversation_history = conversation_history
       /\ (conversation_history = <<>> /\ conversation_history' # <<>>) =>
              \E r \in Requests :
                  /\ pc[r] = "append" /\ pc'[r] = "replied"
                  /\ conversation_history' = <<flow_info[r]>>]_vars

\* after a completed turn and a new session, /history returned the empty list
C15_Witness ==
    \E r \in Requests :
        /\ HistoryAnswer(r)
        /\ body[r].conversation_history = <<>>
        /\ new_chats = 1 /\ completed > 0 /\ Clearing = {}

\* every call of the record has its one result at the same place, and a
\* result holds data or an error according to its success flag
WellPaired(flow) ==
    /\ Len(flow.api_responses) = Len(flow.function_calls)
    /\ \A i \in 1..Len(flow.api_responses) :
           LET result == flow.api_responses[i]
           IN  /\ i <= Len(flow.function_calls)
               /\ result.function_name = flow.function_calls[i].name
               /\ result.success => result.error = None
               /\ ~result.success => result.data = None

\* C16: in every flow record that send_message has returned, and so in every
\* entry of the history, function_calls and api_responses are equally long,
\* the i-th result bears the name of the i-th call, a successful result
\* carries no error and a failed one no data.
C16_CallsAndResults ==
    /\ \A r \in Requests : pc[r] = "append" => WellPaired(flow_info[r])
    /\ \A i \in 1..Len(conversation_history) : WellPaired(conversation_history[i])

\* a record was returned that holds a successful and a failed result
C16_Witness ==
    /\ pc[1] = "append"
    /\ Len(flow_info[1].api_responses) = 2
    /\ flow_info[1].api_responses[1].success
    /\ ~flow_info[1].api_responses[2].success
    /\ flow_info[1].api_responses[2].error # None

\* the request is inside send_message, or about to enter it
Sending(r) == pc[r] \in {"send_user", "loop", "respond"}

\* the request was answered with the text of an exception
Failure(r) == pc[r] = "replied" /\ status[r] = 500 /\ "error" \in DOMAIN body[r]

\* C17: no step that a /chat request takes inside send_message touches the
\* history, and when send_message raises, be it at the first model call, at
\* a function execution or at a later model call, the request is answered
\* with HTTP 500 by a step that leaves the history as it is; the history
\* never holds the turn of a failed request nor a turn without final text.
C17_FailureAppendsNothing ==
    /\ [][\A r \in Requests :
              (Sending(r) /\ pc'[r] # pc[r]) =>
                  /\ conversation_history' = conversation_history
                  /\ pc'[r] = "replied" =>
                         /\ status'[r] = 500
                         /\ "error" \in DOMAIN body'[r]]_vars
    /\ [](/\ \A r \in Requests :
                 (Failure(r) /\ sent[r] # <<>>) =>
                     \A i \in 1..Len(conversation_history) :
                         conversation_history[i].user_message # sent[r][1].content.text
          /\ \A i \in 1..Len(conversation_history) :
                 conversation_history[i].final_response # None)

\* a function execution raised in one turn; the history holds the other turn
C17_Witness ==
    \E r \in Requests :
        /\ Failure(r)
        /\ body[r].error.text = "TypeError"
        /\ executed[r] # <<>>
        /\ Len(conversation_history) = 1

\* the parts of a response that carry a function call
CallPartsOf(resp) ==
    SelectSeq(PartsOf(resp), LAMBDA part : "name" \in DOMAIN part.function_call)

\* C18: of every response only the first part is looked at. The i-th function
\* executed in a call of send_message is the one named by the first part of
\* the i-th response, so a response leads to one execution at most however
\* many function calls its parts carry; a response whose first part is no
\* function call is the last one received, and the function calls in its
\* later parts are never executed.
C18_FirstPartOnly ==
    \A r \in Requests :
        /\ Len(executed[r]) <= Len(received[r])
        /\ \A i \in 1..Len(executed[r]) :
               /\ DesignatesCall(received[r][i])
               /\ executed[r][i].name = CalledName(received[r][i])
        /\ \A i \in 1..Len(received[r]) :
               ~DesignatesCall(received[r][i]) =>
                   /\ i = Len(received[r])
                   /\ Len(executed[r]) = i - 1
                   /\ pc[r] \in {"loop", "append", "replied"}

\* a response of two function calls led to one execution, and a response of
\* a text and a function call ended the call of send_message
C18_Witness ==
    /\ pc[1] = "append"
    /\ Len(received[1]) = 2
    /\ Len(CallPartsOf(received[1][1])) = 2
    /\ Len(CallPartsOf(received[1][2])) = 1
    /\ ~DesignatesCall(received[1][2])
    /\ Names(executed[1]) = <<"createBroadcast">>

\* the turn of the request was answered and is the last one of the history
TurnAppended(q) ==
    /\ pc[q] = "replied" /\ "response" \in DOMAIN body[q]
    /\ conversation_history # <<>>
    /\ Last(conversation_history).user_message = sent[q][1].content.text

\* C19: /chat/new does not wait for a /chat request that is inside
\* send_message. Each message of a turn goes to the session that is current
\* when it is sent, so the sessions of one turn's messages never go back but
\* may differ, and the turn is appended to the history that is current when
\* it completes, whatever session its user message was sent to.
C19_NewSessionInFlight ==
    \A q \in Requests :
        /\ \A r \in Requests \ {q} :
               (/\ client_ok /\ Delivered
                /\ pc[r] = "idle" /\ new_chats < MaxNewChats
                /\ InSendMessage(q)) => ENABLED NewChat(r)
        /\ \A i \in 1..Len(sent[q]) :
               /\ sent[q][i].session <= chat
               /\ i > 1 => sent[q][i - 1].session <= sent[q][i].session
        /\ (pc[q] = "replied" /\ "response" \in DOMAIN body[q]) => TurnAppended(q)

\* the only turn in the history of the new session had its user message sent
\* to the previous session and its function response to the new one
C19_Witness ==
    \E q \in Requests :
        /\ TurnAppended(q)
        /\ new_chats = 1
        /\ Len(conversation_history) = 1
        /\ Len(sent[q]) = 2
        /\ sent[q][1].session < chat
        /\ sent[q][2].session = chat

====
